---- MODULE Spec2Model ----
(***************************************************************************)
(* Model of VSR/Models/Idn.py: the InformationDistillationNetwork class.   *)
(* The TensorFlow default graph is a sequence of operations; a tensor is   *)
(* named by the index of the operation that produces it.  Every operation  *)
(* records its scope, its hyper-parameters, its input tensors and the      *)
(* shape (channels, height, width) of its output.                          *)
(***************************************************************************)
EXTENDS Integers, Sequences, FiniteSets, TLC

\* ---- bounds of the model ------------------------------------------------
MaxBlocks == 1
MaxD == 3
MaxDelta == 1
MaxS == 2
MaxScale == 2
MaxSize == 2
MaxCalls == 3

\* ---- defaults of __init__ -----------------------------------------------
DefaultBlocks == 4
DefaultFilters == 64
DefaultDelta == 16
DefaultSliceFactor == 4

\* H, W: height and width of the low-resolution images the graph is fed

\* an unknown (None) dimension of a placeholder
Unknown == 0 - 1

NoError == "none"

VARIABLES blocks, D, d, s, fine_tune, scale, H, W,
          inputs_preproc, outputs, label, loss, metrics,
          graph, summaries, error, calls

vars == <<blocks, D, d, s, fine_tune, scale, H, W,
          inputs_preproc, outputs, label, loss, metrics,
          graph, summaries, error, calls>>

params == <<blocks, D, d, s, fine_tune, scale, H, W>>

Min(a, b) == IF a < b THEN a ELSE b
Max(a, b) == IF a > b THEN a ELSE b

\* ---- graph operations ---------------------------------------------------
Op(kind, scope, filters, kernel, strides, in, c, h, w, lo, hi) ==
  [kind |-> kind, scope |-> scope, filters |-> filters, kernel |-> kernel,
   strides |-> strides, in |-> in, c |-> c, h |-> h, w |-> w,
   lo |-> lo, hi |-> hi]

\* A builder threads the graph, the current tensor and a raised exception
\* through the layer calls; once an exception is raised nothing is added.
Raise(b, e) == [b EXCEPT !.err = e]

Emit(b, op) == [ops |-> Append(b.ops, op), x |-> Len(b.ops) + 1, err |-> b.err]

\* Statement sequencing: F is applied to the value of b, which is computed
\* once, before the statement that follows it.
Then(b, F(_)) == CHOOSE r \in {F(v) : v \in {b}} : TRUE

\* tf.layers.conv2d(x, filters, kernel, padding='same'): stride 1, spatial
\* size kept, `filters` output channels; a negative dimension is rejected.
conv2d(b, in, filters, kernel, scope) ==
  IF b.err # NoError THEN b
  ELSE IF filters < 0 THEN Raise(b, "ValueError")
  ELSE Emit(b, Op("conv2d", scope, filters, kernel, 1, <<in>>,
                  filters, b.ops[in].h, b.ops[in].w, 0, 0))

\* tf.nn.leaky_relu: elementwise, shape kept
leaky_relu(b, in, scope) ==
  IF b.err # NoError THEN b
  ELSE Emit(b, Op("leaky_relu", scope, 0, 0, 0, <<in>>,
                  b.ops[in].c, b.ops[in].h, b.ops[in].w, 0, 0))

\* variant: the stride is not applied to the spatial size
conv2d_transpose_NoStride(b, in, filters, kernel, strides, scope) ==
  IF b.err # NoError THEN b
  ELSE IF filters < 0 \/ strides < 1 THEN Raise(b, "ValueError")
  ELSE Emit(b, Op("conv2d_transpose", scope, filters, kernel, strides, <<in>>,
                  filters, b.ops[in].h, b.ops[in].w, 0, 0))

\* tf.layers.conv2d_transpose(x, filters, kernel, strides, padding='same'):
\* height and width are multiplied by the stride
conv2d_transpose(b, in, filters, kernel, strides, scope) ==
  IF b.err # NoError THEN b
  ELSE IF filters < 0 \/ strides < 1 THEN Raise(b, "ValueError")
  ELSE Emit(b, Op("conv2d_transpose", scope, filters, kernel, strides, <<in>>,
                  filters, b.ops[in].h * strides, b.ops[in].w * strides, 0, 0))

\* Python slice bound k on an axis of n entries
SliceBound(k, n) == IF k < 0 THEN Max(n + k, 0) ELSE Min(k, n)

\* x[..., :k]
SliceTo(b, in, k, scope) ==
  IF b.err # NoError THEN b
  ELSE LET hi == SliceBound(k, b.ops[in].c)
       IN Emit(b, Op("strided_slice", scope, 0, 0, 0, <<in>>,
                     hi, b.ops[in].h, b.ops[in].w, 0, hi))

\* variant: the slice keeps every channel
SliceFrom_Whole(b, in, k, scope) ==
  IF b.err # NoError THEN b
  ELSE Emit(b, Op("strided_slice", scope, 0, 0, 0, <<in>>,
                  b.ops[in].c, b.ops[in].h, b.ops[in].w, 0, b.ops[in].c))

\* x[..., k:]
SliceFrom(b, in, k, scope) ==
  IF b.err # NoError THEN b
  ELSE LET lo == SliceBound(k, b.ops[in].c)
       IN Emit(b, Op("strided_slice", scope, 0, 0, 0, <<in>>,
                     b.ops[in].c - lo, b.ops[in].h, b.ops[in].w,
                     lo, b.ops[in].c))

\* tf.concat([p, q], axis=-1)
concat(b, p, q, scope) ==
  IF b.err # NoError THEN b
  ELSE IF b.ops[p].h # b.ops[q].h \/ b.ops[p].w # b.ops[q].w
       THEN Raise(b, "ValueError")
  ELSE Emit(b, Op("concat", scope, 0, 0, 0, <<p, q>>,
                  b.ops[p].c + b.ops[q].c, b.ops[p].h, b.ops[p].w, 0, 0))

\* broadcasting of one dimension of an elementwise operation
Broadcastable(m, n) == m = n \/ m = 1 \/ n = 1
Broadcast(m, n) == IF m = 1 THEN n ELSE m

\* x + y
add(b, p, q, scope) ==
  IF b.err # NoError THEN b
  ELSE IF ~ /\ Broadcastable(b.ops[p].c, b.ops[q].c)
            /\ Broadcastable(b.ops[p].h, b.ops[q].h)
            /\ Broadcastable(b.ops[p].w, b.ops[q].w)
       THEN Raise(b, "ValueError")
  ELSE Emit(b, Op("add", scope, 0, 0, 0, <<p, q>>,
                  Broadcast(b.ops[p].c, b.ops[q].c),
                  Broadcast(b.ops[p].h, b.ops[q].h),
                  Broadcast(b.ops[p].w, b.ops[q].w), 0, 0))

\* ---- _make_idn ----------------------------------------------------------
\* variant: D5 = D4 + d
FilterCounts_D5(D3, dd) ==
  LET D1 == D3 - dd
      D2 == D1 - dd
      D4 == D3
      D5 == D4 + dd
      D6 == D4 + dd
  IN <<D1, D2, D3, D4, D5, D6>>

\* D = [D1, D2, D3, D4, D5, D6]
FilterCounts(D3, dd) ==
  LET D1 == D3 - dd
      D2 == D1 - dd
      D4 == D3
      D5 == D4 - dd
      D6 == D4 + dd
  IN <<D1, D2, D3, D4, D5, D6>>

\* for _D in Ds: x = leaky_relu(conv2d(x, _D, 3))
RECURSIVE ConvStack(_, _, _)
ConvStack(b, Ds, scope) ==
  IF Ds = <<>> THEN b
  ELSE Then(conv2d(b, b.x, Head(Ds), 3, scope), LAMBDA c :
       Then(leaky_relu(c, c.x, scope), LAMBDA r :
       ConvStack(r, Tail(Ds), scope)))

\* D3 // s, the channel index at which the 3rd convolution's output is split
SplitPoint(b, D3, ss) ==
  IF b.err # NoError THEN b
  ELSE IF ss = 0 THEN Raise(b, "ZeroDivisionError")
  ELSE b

\* variant: s itself is the number of channels kept
SplitIndex_Count(D3, ss) == ss

SplitIndex(D3, ss) == D3 \div ss

\* variant: the 1x1 convolution keeps the width of its input
compression_Keep(b, x, D3) ==
  IF b.err # NoError THEN b ELSE conv2d(b, x, b.ops[x].c, 1, "compression")

\* outputs = tf.layers.conv2d(x, D3, 1, padding='same')
compression(b, x, D3) == conv2d(b, x, D3, 1, "compression")

make_idn(b, inputs, D3, dd, ss) ==
  LET Dl == FilterCounts(D3, dd)
  IN Then(ConvStack([b EXCEPT !.x = inputs], SubSeq(Dl, 1, 3), "enhancement"),
       LAMBDA b3 :
     Then(SplitPoint(b3, D3, ss), LAMBDA bk :
     \* R, P2 = x[..., :D3 // s], x[..., D3 // s:]
     Then(IF bk.err # NoError THEN bk
          ELSE SliceTo(bk, b3.x, SplitIndex(D3, ss), "enhancement"), LAMBDA bR :
     Then(IF bk.err # NoError THEN bk
          ELSE SliceFrom(bR, b3.x, SplitIndex(D3, ss), "enhancement"), LAMBDA bP :
     \* x = P2
     Then(ConvStack(bP, SubSeq(Dl, 4, 6), "enhancement"), LAMBDA b6 :
     \* x += tf.concat([inputs, R], axis=-1)
     Then(concat(b6, inputs, bR.x, "enhancement"), LAMBDA bc :
     Then(add(bc, b6.x, bc.x, "enhancement"), LAMBDA ba :
     compression(ba, ba.x, D3))))))))

\* ---- build_graph --------------------------------------------------------
\* SuperResolution.build_graph: makes the preprocessed input available
base_build_graph(b, h, w) ==
  Emit(b, Op("input", "base", 0, 0, 0, <<>>, 1, h, w, 0, 0))

\* variant: a single feature-extraction convolution
feature_blocks_One(b, filters) ==
  ConvStack(b, <<filters>>, "feature_blocks")

feature_blocks(b, filters) ==
  ConvStack(b, <<filters, filters>>, "feature_blocks")

\* for _ in range(self.blocks): x = self._make_idn(x, self.D, self.d, self.s)
RECURSIVE distillation_blocks(_, _, _, _, _)
distillation_blocks(b, n, D3, dd, ss) ==
  IF n <= 0 THEN b
  ELSE Then(make_idn(b, b.x, D3, dd, ss), LAMBDA x :
       distillation_blocks(x, n - 1, D3, dd, ss))

reconstruction(b, strides) ==
  conv2d_transpose(b, b.x, 1, 17, strides, "reconstruction")

\* SuperResolution.__init__: the collections the hooks fill start empty
SuperResolutionInit ==
  /\ inputs_preproc = <<>>
  /\ outputs = <<>>
  /\ label = <<>>
  /\ loss = <<>>
  /\ metrics = <<>>

\* __init__ with either a small configuration or the default one.  A call
\* that raises ends the run: no hook is called after an exception.
Init ==
  /\ \/ /\ blocks \in 0..MaxBlocks
        /\ D \in 1..MaxD
        /\ d \in (0 - MaxDelta)..MaxDelta
        /\ s \in 0..MaxS
     \/ /\ blocks = DefaultBlocks
        /\ D = DefaultFilters
        /\ d = DefaultDelta
        /\ s = DefaultSliceFactor
  /\ fine_tune \in BOOLEAN
  /\ scale \in 1..MaxScale
  /\ H \in 1..MaxSize
  /\ W \in 1..MaxSize
  /\ SuperResolutionInit
  /\ graph = <<>>
  /\ summaries = <<>>
  /\ error = NoError
  /\ calls = <<>>

CanCall == error = NoError /\ Len(calls) < MaxCalls

\* the graph, current tensor and exception after the body of build_graph
BuildGraph(g, n, filters, dd, ss, strides, h, w) ==
  Then(base_build_graph([ops |-> g, x |-> 0, err |-> NoError], h, w), LAMBDA b0 :
  Then(feature_blocks(b0, filters), LAMBDA b1 :
  Then(distillation_blocks(b1, n, filters, dd, ss), LAMBDA b2 :
  reconstruction(b2, strides))))

build_graph ==
  /\ CanCall
  /\ \E b \in {BuildGraph(graph, blocks, D, d, s, scale, H, W)} :
       /\ graph' = b.ops
       /\ inputs_preproc' = Append(inputs_preproc, Len(graph) + 1)
       /\ outputs' = IF b.err = NoError THEN Append(outputs, b.x) ELSE outputs
       /\ error' = b.err
  /\ calls' = Append(calls, "build_graph")
  /\ UNCHANGED <<params, label, loss, metrics, summaries>>

\* ---- build_loss ---------------------------------------------------------
\* two static dimensions are compatible when equal or when one is None
Compatible(m, n) == m = Unknown \/ n = Unknown \/ m = n

\* tf.losses.get_regularization_losses(): one per regularized kernel
RegularizationLosses(g) ==
  {i \in 1..Len(g) : g[i].kind \in {"conv2d", "conv2d_transpose"}}

Tensor(fn, args) == [fn |-> fn, args |-> args]

\* variant: the two branches exchanged
Objective_Swapped(ft, mse, mae, regular_loss) ==
  IF ft THEN Tensor("add", <<mse, regular_loss>>)
  ELSE Tensor("add", <<mae, regular_loss>>)

\* loss = mae + regular_loss if self.fine_tune else mse + regular_loss
Objective(ft, mse, mae, regular_loss) ==
  IF ft THEN Tensor("add", <<mae, regular_loss>>)
  ELSE Tensor("add", <<mse, regular_loss>>)

\* self.metrics[k] = v
SetItem(m, k, v) == [x \in (DOMAIN m) \cup {k} |-> IF x = k THEN v ELSE m[x]]

\* variant: 'mae' is not registered
LossMetrics_NoMae(m, mse, mae, regular_loss, psnr, ssim) ==
  SetItem(SetItem(SetItem(SetItem(m,
    "mse", mse), "regularization", regular_loss),
    "psnr", psnr), "ssim", ssim)

LossMetrics(m, mse, mae, regular_loss, psnr, ssim) ==
  SetItem(SetItem(SetItem(SetItem(SetItem(m,
    "mse", mse), "mae", mae), "regularization", regular_loss),
    "psnr", psnr), "ssim", ssim)

\* The label placeholder is created before outputs[-1] is read, so it stays
\* when that read raises.  y_true is the placeholder cast to float32 (same
\* shape).
build_loss ==
  /\ CanCall
  /\ LET ph == Emit([ops |-> graph, x |-> 0, err |-> NoError],
                    Op("placeholder", "loss", 0, 0, 0, <<>>,
                       1, Unknown, Unknown, 0, 0))
         y_true == ph.x
         y_pred == outputs[Len(outputs)]
         mse == Tensor("mean_squared_error", <<y_true, y_pred>>)
         mae == Tensor("absolute_difference", <<y_true, y_pred>>)
         regular_loss == Tensor("add_n", <<Cardinality(RegularizationLosses(graph))>>)
         psnr == Tensor("psnr", <<y_true, y_pred>>)
         ssim == Tensor("ssim", <<y_true, y_pred>>)
     IN /\ graph' = ph.ops
        /\ label' = Append(label, ph.x)
        /\ IF outputs = <<>>
           THEN /\ error' = "IndexError"
                /\ UNCHANGED <<loss, metrics>>
           ELSE IF \/ ~ Compatible(graph[y_pred].c, ph.ops[y_true].c)
                   \/ ~ Compatible(graph[y_pred].h, ph.ops[y_true].h)
                   \/ ~ Compatible(graph[y_pred].w, ph.ops[y_true].w)
                   \/ RegularizationLosses(graph) = {}
           THEN /\ error' = "ValueError"
                /\ UNCHANGED <<loss, metrics>>
           ELSE /\ error' = NoError
                /\ loss' = Append(loss, Tensor("minimize",
                             <<Objective(fine_tune, mse, mae, regular_loss)>>))
                /\ metrics' = LossMetrics(metrics, mse, mae, regular_loss, psnr, ssim)
  /\ calls' = Append(calls, "build_loss")
  /\ UNCHANGED <<params, inputs_preproc, outputs, summaries>>

\* ---- build_summary ------------------------------------------------------
\* variant: the weight summary reads the key 'regular_loss'
SummaryScalars_Key ==
  << <<"loss/mse", "mse">>, <<"loss/mae", "mae">>,
     <<"loss/weight", "regular_loss">>,
     <<"metric/psnr", "psnr">>, <<"metric/ssim", "ssim">> >>

\* the scalar summaries in statement order: <<tag, metrics key>>
SummaryScalars ==
  << <<"loss/mse", "mse">>, <<"loss/mae", "mae">>,
     <<"loss/weight", "regularization">>,
     <<"metric/psnr", "psnr">>, <<"metric/ssim", "ssim">> >>

\* the summaries written before the first missing key raises KeyError
RECURSIVE WriteScalars(_, _, _)
WriteScalars(sm, m, todo) ==
  IF todo = <<>> THEN [summaries |-> sm, err |-> NoError]
  ELSE IF Head(todo)[2] \notin DOMAIN m THEN [summaries |-> sm, err |-> "KeyError"]
  ELSE WriteScalars(Append(sm, [tag |-> Head(todo)[1], value |-> m[Head(todo)[2]]]),
                    m, Tail(todo))

build_summary ==
  /\ CanCall
  /\ LET r == WriteScalars(summaries, metrics, SummaryScalars)
     IN /\ summaries' = r.summaries
        /\ error' = r.err
  /\ calls' = Append(calls, "build_summary")
  /\ UNCHANGED <<params, inputs_preproc, outputs, label, loss, metrics, graph>>

\* ---- reading the graph --------------------------------------------------
LastCall == calls[Len(calls)]
PriorCalls == {calls[i] : i \in 1..(Len(calls) - 1)}

\* a distillation block is complete once its compression convolution exists
CompleteBlocks == {j \in 1..Len(graph) : graph[j].scope = "compression"}

\* the first operation of the block that ends at j: the one after the end of
\* the previous stage (feature extraction or the previous block)
RECURSIVE StageEnd(_)
StageEnd(i) ==
  IF graph[i].scope \in {"feature_blocks", "compression"} THEN i
  ELSE StageEnd(i - 1)

BlockStart(j) == 1 + StageEnd(j - 1)

\* the enhancement convolutions of the block that ends at j, in graph order
BlockConvs(j) ==
  LET st == BlockStart(j)
  IN SelectSeq([i \in 1..(j - st) |-> st + i - 1],
               LAMBDA i : graph[i].kind = "conv2d")

BlockConcat(j) ==
  CHOOSE i \in BlockStart(j)..j : graph[i].kind = "concat"

\* R: the slice concatenated after the block input; P2: the slice the 4th
\* convolution reads
SliceR(j) == graph[BlockConcat(j)].in[2]
SliceP2(j) == graph[BlockConvs(j)[4]].in[1]

Consumers(t) == {i \in 1..Len(graph) : \E k \in 1..Len(graph[i].in) : graph[i].in[k] = t}

RECURSIVE Repeat(_, _)
Repeat(n, sq) == IF n <= 0 THEN <<>> ELSE sq \o Repeat(n - 1, sq)

\* the layers (input, convolutions) among operations from+1..to of g, each
\* named by its stage
StageOf(o) == IF o.kind = "conv2d_transpose" THEN "transposed" ELSE o.scope

LayerIndices(g, from, to) ==
  SelectSeq([i \in 1..(to - from) |-> from + i],
            LAMBDA i : g[i].kind \in {"input", "conv2d", "conv2d_transpose"})

Stages(g, from, to) ==
  LET ix == LayerIndices(g, from, to)
  IN [k \in 1..Len(ix) |-> StageOf(g[ix[k]])]

ExpectedStages(n) ==
  <<"base", "feature_blocks", "feature_blocks">>
  \o Repeat(n, <<"enhancement", "enhancement", "enhancement",
                 "enhancement", "enhancement", "enhancement", "compression">>)
  \o <<"transposed">>

\* ---- C1 -----------------------------------------------------------------
\* C1: a call of build_graph that returns has added, in this order, the base
\* class's input, 2 feature-extraction 3x3 convolutions, `blocks`
\* distillation blocks each reading the previous stage's output, and 1
\* transposed convolution; its last step appends exactly that convolution's
\* result to self.outputs.
C1_BuildOrder ==
  [][(calls' = Append(calls, "build_graph") /\ error' = NoError) =>
       LET from == Len(graph)
           to == Len(graph')
           ix == LayerIndices(graph', from, to)
       IN /\ Stages(graph', from, to) = ExpectedStages(blocks)
          /\ \A k \in 2..3 : graph'[ix[k]].kernel = 3
          /\ \A k \in 2..Len(ix) :
               graph'[ix[k]].scope # graph'[ix[k] - 1].scope
                 => graph'[ix[k]].in = <<ix[k] - 1>>
          /\ graph'[to].kind = "conv2d_transpose"
          /\ outputs' = Append(outputs, to)]_vars

C1_Witness ==
  /\ calls # <<>> /\ LastCall = "build_graph" /\ error = NoError
  /\ blocks = DefaultBlocks /\ Len(outputs) = 1
  /\ Cardinality(CompleteBlocks) = DefaultBlocks

\* ---- C2 -----------------------------------------------------------------
ErrorTerms == {"mean_squared_error", "absolute_difference"}

\* C2: every objective handed to the optimizer is the sum of one error term
\* and the regularization loss: MSE when fine_tune is false, MAE when it is
\* true, never both and never neither.
C2_Objective ==
  \A i \in 1..Len(loss) :
    LET obj == loss[i].args[1]
    IN /\ loss[i].fn = "minimize"
       /\ obj.fn = "add"
       /\ Cardinality({k \in 1..Len(obj.args) : obj.args[k].fn \in ErrorTerms}) = 1
       /\ \E k \in 1..Len(obj.args) : obj.args[k].fn = "add_n"
       /\ \E k \in 1..Len(obj.args) :
            obj.args[k].fn = IF fine_tune THEN "absolute_difference"
                             ELSE "mean_squared_error"

C2_Witness == loss # <<>> /\ fine_tune /\ LastCall = "build_loss"

\* ---- C3 -----------------------------------------------------------------
\* C3: the six filter counts satisfy d = D3-D1 = D1-D2 = D6-D4 = D4-D5 and
\* D3 = D4, and in every block the convolutions carry D1, D2, D3 before the
\* split and D4, D5, D6 after it.
C3_FilterCounts ==
  /\ LET f == FilterCounts(D, d)
     IN /\ Len(f) = 6
        /\ f[3] = D
        /\ f[3] - f[1] = d /\ f[1] - f[2] = d
        /\ f[6] - f[4] = d /\ f[4] - f[5] = d
        /\ f[3] = f[4]
  /\ \A j \in CompleteBlocks :
       LET cv == BlockConvs(j)
           R == SliceR(j)
           P2 == SliceP2(j)
           F(k) == graph[cv[k]].filters
       IN /\ Len(cv) = 6
          /\ F(3) = D /\ F(3) = F(4)
          /\ F(3) - F(1) = d /\ F(1) - F(2) = d
          /\ F(6) - F(4) = d /\ F(4) - F(5) = d
          /\ \A k \in 1..3 : cv[k] < R /\ cv[k] < P2
          /\ \A k \in 4..6 : cv[k] > R /\ cv[k] > P2
          /\ \A k \in 1..6 : graph[cv[k]].kernel = 3

C3_Witness == CompleteBlocks # {} /\ d > 0 /\ D # DefaultFilters

\* ---- C4 -----------------------------------------------------------------
\* the first slice of every split, R = x[..., :D3 // s], whether or not the
\* block goes on to completion
RetainedSlices ==
  {i \in 2..Len(graph) : /\ graph[i].kind = "strided_slice"
                         /\ graph[i - 1].kind # "strided_slice"}

C5_Partition ==
  \A j \in CompleteBlocks :
    LET R == SliceR(j)
        P2 == SliceP2(j)
        cv == BlockConvs(j)
        cc == BlockConcat(j)
        x3 == graph[R].in[1]
    IN /\ graph[R].kind = "strided_slice" /\ graph[P2].kind = "strided_slice"
       /\ R # P2
       /\ graph[P2].in = <<x3>> /\ graph[x3].in = <<cv[3]>>
       /\ graph[x3].c = D
       /\ graph[R].lo = 0 /\ graph[R].hi = graph[P2].lo /\ graph[P2].hi = D
       /\ graph[R].c = graph[R].hi - graph[R].lo
       /\ graph[P2].c = graph[P2].hi - graph[P2].lo
       /\ graph[R].c + graph[P2].c = D
       /\ Consumers(P2) = {cv[4]}
       /\ graph[cv[5]].in = <<cv[4] + 1>> /\ graph[cv[6]].in = <<cv[5] + 1>>
       /\ Consumers(R) = {cc}
       /\ graph[cc].in = <<graph[cv[1]].in[1], R>>
       /\ \E a \in Consumers(cc) :
            /\ Consumers(cc) = {a}
            /\ graph[a].kind = "add"
            /\ graph[a].in = <<cv[6] + 1, cc>>
            /\ graph[j].in = <<a>>

C5_Witness ==
  \E j \in CompleteBlocks : graph[SliceR(j)].c > 0 /\ graph[SliceP2(j)].c > 0

\* ---- C6 -----------------------------------------------------------------
\* C6: every layer before the transposed convolution keeps the input's
\* height and width; every network output has 1 channel and scale times the
\* input's height and width, and is compatible with the [None, None, None, 1]
\* label placeholder.
C6_OutputShape ==
  /\ \A i \in 1..Len(graph) :
       graph[i].kind \notin {"conv2d_transpose", "placeholder"}
         => graph[i].h = H /\ graph[i].w = W
  /\ \A i \in 1..Len(outputs) :
       LET y == graph[outputs[i]]
       IN /\ y.kind = "conv2d_transpose" /\ y.strides = scale
          /\ y.c = 1 /\ y.h = scale * H /\ y.w = scale * W
          /\ \A k \in 1..Len(label) :
               LET t == graph[label[k]]
               IN t.c = y.c /\ Compatible(t.h, y.h) /\ Compatible(t.w, y.w)

C6_Witness ==
  /\ outputs # <<>> /\ label # <<>> /\ scale > 1 /\ H # W
  /\ CompleteBlocks # {}

\* ---- C7 -----------------------------------------------------------------
MetricKeys == {"mse", "mae", "regularization", "psnr", "ssim"}

\* C7: a call of build_loss that returns leaves all five metrics registered
\* whatever fine_tune is, appends exactly one label placeholder and exactly
\* one training op, and leaves self.outputs alone.
C7_Metrics ==
  [][(calls' = Append(calls, "build_loss") /\ error' = NoError) =>
       /\ MetricKeys \subseteq DOMAIN metrics'
       /\ metrics'["mse"].fn = "mean_squared_error"
       /\ metrics'["mae"].fn = "absolute_difference"
       /\ Len(label') = Len(label) + 1
       /\ Len(loss') = Len(loss) + 1
       /\ loss'[Len(loss')].fn = "minimize"
       /\ outputs' = outputs]_vars

C7_Witness ==
  /\ calls # <<>> /\ LastCall = "build_loss" /\ error = NoError
  /\ ~ fine_tune /\ "mae" \in DOMAIN metrics

\* ---- C8 -----------------------------------------------------------------
SummaryKeys == {SummaryScalars[i][2] : i \in 1..Len(SummaryScalars)}

\* C8: build_loss returns only after a build_graph (else outputs[-1] raises
\* IndexError); build_summary reads exactly the keys build_loss writes, so it
\* returns whenever build_loss ran before it and raises KeyError otherwise.
C8_HookOrder ==
  /\ (calls # <<>> /\ LastCall = "build_loss") =>
       /\ error = NoError <=> "build_graph" \in PriorCalls
       /\ error # NoError => error = "IndexError" /\ outputs = <<>>
  /\ (calls # <<>> /\ LastCall = "build_summary") =>
       /\ error = NoError <=> "build_loss" \in PriorCalls
       /\ error # NoError => error = "KeyError" /\ metrics = <<>>
  /\ metrics # <<>> => DOMAIN metrics = SummaryKeys

C8_Witness ==
  /\ calls = <<"build_graph", "build_loss", "build_summary">>
  /\ error = NoError /\ Len(summaries) = 5

\* ---- C9 -----------------------------------------------------------------
AllPositive(f) == \A i \in 1..Len(f) : f[i] > 0

\* C9: the feature map entering the first block and the one leaving every
\* block have self.D channels at the input's height and width, so every
\* block reads as many channels as its D3; the default filter counts are
\* 48, 32, 64, 64, 48, 80, and filter counts are all positive only if
\* D3 > 2*d.
C9_ChannelInvariant ==
  /\ \A i \in 1..Len(graph) :
       (graph[i].scope = "feature_blocks" /\
        (i = Len(graph) \/ graph[i + 1].scope # "feature_blocks"))
         => graph[i].c = D
  /\ \A j \in CompleteBlocks :
       LET cv == BlockConvs(j)
           in == graph[cv[1]].in[1]
       IN /\ graph[j].kernel = 1
          /\ graph[j].c = D /\ graph[j].h = H /\ graph[j].w = W
          /\ graph[in].c = graph[cv[3]].filters
          /\ graph[in].c = D
          /\ in = BlockStart(j) - 1
  /\ FilterCounts(DefaultFilters, DefaultDelta) = <<48, 32, 64, 64, 48, 80>>
  /\ AllPositive(FilterCounts(DefaultFilters, DefaultDelta))
  /\ AllPositive(FilterCounts(D, d)) => D > 2 * d

C9_Witness ==
  /\ Cardinality(CompleteBlocks) >= 2 /\ D = DefaultFilters
  /\ error = NoError

Next == build_graph \/ build_loss \/ build_summary

Spec == Init /\ [][Next]_vars

====
